---- MODULE Spec2Model ----
(***************************************************************************)
(* subquote: builder::get_quote (src/src/lib.rs).                          *)
(*                                                                         *)
(* One invocation of get_quote is a sequential process: it looks for the   *)
(* cache file of the subtitle, loads it (cache hit) or reads the subtitle, *)
(* builds the transition dictionary line by line and saves it (cache       *)
(* miss), then draws a start token, walks the dictionary (build_branch)    *)
(* and assembles the quote.  The cache directory outlives the process, so  *)
(* a later invocation with the same arguments finds what an earlier one    *)
(* wrote.                                                                  *)
(*                                                                         *)
(* A String is a sequence of one-character strings; a HashMap<String,      *)
(* Vec<String>> is a function whose DOMAIN is its key set.                 *)
(***************************************************************************)
EXTENDS Integers, Sequences, FiniteSets, TLC

(* ------------------------------ bounds --------------------------------- *)
\* characters of the subtitle file, each line ending with a line break
MaxSourceChars == 7
\* largest quote_length (validate() admits every value >= 1)
MaxQuoteLen == 2
\* records of a cache file that get_quote did not write itself
MaxEntries == 1
\* successors per record of such a file
MaxPairs == 1

(* ---------------------------- characters ------------------------------- *)
\* char::is_uppercase, on the characters that occur in the model
Uppercase == {"A"}
\* char::is_whitespace (str::split_whitespace, and \s of the regexes)
Whitespace == {" ", "\n", "\t", "\r"}
\* the class \d of subrip_reg
Digits == {"0", "1", "2", "3", "4", "5", "6", "7", "8", "9"}
\* the class [\.,!,\?] of ends_with_reg
EndClass == {".", ",", "!", "?"}
\* characters a subtitle line is made of (str::lines leaves no line break)
LineChars == {"A", "b", ".", ",", " "}
\* the subtitle lines of n characters
Lines(n) == [1..n -> LineChars]

Last(s) == s[Len(s)]

(* ------------------------- line filter, tokenizer ---------------------- *)
\* first alternative of subrip_reg, one class per character:
\* d = \d, s = \s, anything else = that character
TimestampPattern ==
  << "d", "d", ":", "d", "d", ":", "d", "d", ",", "d", "d", "d", "s",
     "-", "-", ">", "s",
     "d", "d", ":", "d", "d", ":", "d", "d", ",", "d", "d", "d" >>

MatchesClass(c, cls) ==
  IF cls = "d" THEN c \in Digits
  ELSE IF cls = "s" THEN c \in Whitespace
  ELSE c = cls

\* subrip_reg.is_match(line): a timestamp range, a bare index, or an empty line
subrip_reg_is_match(line) ==
  \/ /\ Len(line) = Len(TimestampPattern)
     /\ \A i \in 1..Len(line) : MatchesClass(line[i], TimestampPattern[i])
  \/ /\ Len(line) >= 1
     /\ \A i \in 1..Len(line) : line[i] \in Digits
  \/ line = <<>>

\* index of the last ">" of the line after position i, 0 if there is none
\* (the greedy .* of <.*> runs to the last ">" of the line)
LastGt(line, i) ==
  LET js == {j \in (i + 1)..Len(line) : line[j] = ">"}
  IN  IF js = {} THEN 0 ELSE CHOOSE j \in js : \A k \in js : k <= j

\* position after an optional single whitespace character at i
SkipOneSpace(line, i) ==
  IF i <= Len(line) /\ line[i] \in Whitespace THEN i + 1 ELSE i

RECURSIVE ReplaceFrom(_, _)
\* quotes_reg.replace_all(line, "") from position i on: delete every match of
\* "\s? | <.*>\s? | , | -
ReplaceFrom(line, i) ==
  IF i > Len(line) THEN <<>>
  ELSE IF line[i] = "\"" THEN ReplaceFrom(line, SkipOneSpace(line, i + 1))
  ELSE IF line[i] = "<" /\ LastGt(line, i) # 0
    THEN ReplaceFrom(line, SkipOneSpace(line, LastGt(line, i) + 1))
  ELSE IF line[i] \in {",", "-"} THEN ReplaceFrom(line, i + 1)
  ELSE <<line[i]>> \o ReplaceFrom(line, i + 1)

quotes_reg_replace_all(line) == ReplaceFrom(line, 1)

RECURSIVE SplitFrom(_, _, _)
\* tokens of s from position i on, cur being the token under construction
SplitFrom(s, i, cur) ==
  IF i > Len(s) THEN (IF cur = <<>> THEN <<>> ELSE <<cur>>)
  ELSE IF s[i] \in Whitespace
    THEN (IF cur = <<>> THEN <<>> ELSE <<cur>>) \o SplitFrom(s, i + 1, <<>>)
  ELSE SplitFrom(s, i + 1, Append(cur, s[i]))

\* str::split_whitespace: the maximal runs of non-whitespace characters
split_whitespace(s) == SplitFrom(s, 1, <<>>)

\* the tokens get_quote iterates over for one line of the subtitle
\* (both Unit::Word and Unit::Grapheme split on whitespace)
LineUnits(line) ==
  IF subrip_reg_is_match(line) THEN <<>>
  ELSE split_whitespace(quotes_reg_replace_all(line))

\* the token sequences the lines of n characters yield
SourceUnits ==
  [n \in 0..(MaxSourceChars - 1) |-> {LineUnits(line) : line \in Lines(n)}]

(* ------------------------------ builder -------------------------------- *)
\* String::ends_with(".")
ends_with_period(s) == Len(s) >= 1 /\ Last(s) = "."

\* InsertPair without the test on the trailing period
InsertPair_NoPeriodTest(d, next, peeked) ==
  IF next \in DOMAIN d
    THEN [d EXCEPT ![next] = Append(@, peeked)]
  ELSE (next :> <<peeked>>) @@ d

\* InsertPair creating a key with an empty Vec and pushing on the next sight
InsertPair_EmptyVec(d, next, peeked) ==
  IF next \in DOMAIN d
    THEN [d EXCEPT ![next] = Append(@, peeked)]
  ELSE IF ~ends_with_period(next)
    THEN (next :> <<>>) @@ d
  ELSE d

\* one turn of the loop over a line: next is the token taken from the
\* iterator, peeked the one after it
InsertPair(d, next, peeked) ==
  IF next \in DOMAIN d
    THEN [d EXCEPT ![next] = Append(@, peeked)]
  ELSE IF ~ends_with_period(next)
    THEN (next :> <<peeked>>) @@ d
  ELSE d


(* ------------------------------- paths --------------------------------- *)
RECURSIVE SplitSlashFrom(_, _, _)
\* str::split("/"): the pieces between the slashes, empty pieces kept
SplitSlashFrom(s, i, cur) ==
  IF i > Len(s) THEN <<cur>>
  ELSE IF s[i] = "/" THEN <<cur>> \o SplitSlashFrom(s, i + 1, <<>>)
  ELSE SplitSlashFrom(s, i + 1, Append(cur, s[i]))

split_slash(s) == SplitSlashFrom(s, 1, <<>>)

\* index of the dot that starts the extension of a file name, 0 if it has none
\* (a leading dot starts no extension)
ExtensionDot(name) ==
  LET js == {j \in 2..Len(name) : name[j] = "."}
  IN  IF js = {} THEN 0 ELSE CHOOSE j \in js : \A k \in js : k <= j

\* PathBuf::set_extension on the file name: the extension is replaced if the
\* name has one, added otherwise
set_extension(name, ext) ==
  IF ExtensionDot(name) = 0 THEN name \o <<".">> \o ext
  ELSE SubSeq(name, 1, ExtensionDot(name)) \o ext

\* the extension get_quote gives the cache file of a unit
UnitExtension(unit) ==
  IF unit = "Word" THEN <<"w", "o", "r", "d">> ELSE <<"c", "h", "a", "r">>

\* the path get_quote computes into cached_dict
cached_dict(a) ==
  [dir  |-> a.cache_directory,
   file |-> set_extension(Last(split_slash(a.subtitle)), UnitExtension(a.unit))]

(* ---------------------------- cache store ------------------------------ *)
\* struct Entry
Entry(key, pairs) == [key |-> key, pairs |-> pairs]

\* content of a cache file: the Entries document, or bytes serde_json rejects
Entries(es) == [ok |-> TRUE, entries |-> es]
Corrupt == [ok |-> FALSE, entries |-> <<>>]

RECURSIVE InsertAll(_, _, _)
\* the loop of load_dict over entries[i..]: HashMap::insert replaces the value
\* of a key that is already present
InsertAll(d, es, i) ==
  IF i > Len(es) THEN d
  ELSE InsertAll((es[i].key :> es[i].pairs) @@ d, es, i + 1)

\* load_dict iterating from the second record on
load_dict_SkipsFirst(es) == InsertAll(<<>>, es, 2)

\* load_dict on a deserialized document
load_dict(es) == InsertAll(<<>>, es, 1)

\* the orders in which HashMap::drain may yield the keys of d
DrainOrders(d) ==
  LET n == Cardinality(DOMAIN d)
  IN  {f \in [1..n -> DOMAIN d] : \A i, j \in 1..n : f[i] = f[j] => i = j}

\* save_dict: the records built from a drain of d in the order ord
save_dict(d, ord) == [i \in 1..Len(ord) |-> Entry(ord[i], d[ord[i]])]

(* ------------------------------ sampler -------------------------------- *)
\* Starts without the filter
Starts_AnyKey(d) == DOMAIN d

\* the filter of generate_quote: keys whose first character is uppercase
Starts(d) == {key \in DOMAIN d : key[1] \in Uppercase}

\* v[0] on a key with no characters: index out of bounds
StartsPanics(d) == \E key \in DOMAIN d : Len(key) = 0

\* enum Quote
Nil == <<>>
Node(unit, next) == <<unit, next>>

\* build_branch returns Node(unit, Nil) without drawing
BranchStops(d, unit, length) == length = 0 \/ unit \notin DOMAIN d

\* BranchCandidates drawing the index into the keys instead of the entry
BranchCandidates_FromKeys(d, unit) ==
  IF Len(d[unit]) = 0 THEN {} ELSE DOMAIN d

\* what entry.iter().nth(random) can return, random in 0..count-1
BranchCandidates(d, unit) == {d[unit][i] : i \in 1..Len(d[unit])}

RECURSIVE Chain(_, _)
\* the Quote returned by the outermost build_branch once the innermost call
\* has returned: frames[i] is the unit of the i-th nested call
Chain(frames, i) ==
  IF i > Len(frames) THEN Nil ELSE Node(frames[i], Chain(frames, i + 1))

RECURSIVE QuoteBuild(_)
\* Quote::build: None is <<>>, Some(v) is <<v>>
QuoteBuild(q) ==
  IF q = Nil THEN <<>>
  ELSE LET rest == QuoteBuild(q[2])
       IN  IF rest = <<>> THEN << <<q[1]>> >>
           ELSE << <<q[1]>> \o rest[1] >>

RECURSIVE JoinFrom(_, _)
\* Vec<String>::join(" ") of v[i..]
JoinFrom(v, i) ==
  IF i > Len(v) THEN <<>>
  ELSE IF i = Len(v) THEN v[i]
  ELSE v[i] \o <<" ">> \o JoinFrom(v, i + 1)

join(v) == JoinFrom(v, 1)

\* ends_with_reg.is_match(quote), ends_with_reg = .+[\.,!,\?]$ : the last
\* character is in the class and the one before it is matched by "." ,
\* which is any character but a line feed
ends_with_reg_is_match(quote) ==
  /\ Len(quote) >= 2
  /\ Last(quote) \in EndClass
  /\ quote[Len(quote) - 1] # "\n"

\* the quote generate_quote returns for the tokens vec_quote
FinishQuote(vec_quote) ==
  LET quote == join(vec_quote)
  IN  IF ~ends_with_reg_is_match(quote) THEN Append(quote, ".") ELSE quote


(* ------------------------------- state --------------------------------- *)
VARIABLES
  args,       \* SafeArguments of the invocation
  fs,         \* the cache directory: path -> content of the file there
  pc,         \* where the invocation is
  dict,       \* the HashMap get_quote builds or loads
  units,      \* tokens of the current line still in the peekable iterator
  charsRead,  \* characters of the subtitle consumed so far
  unit,       \* build_branch: unit of the innermost call
  length,     \* build_branch: length of the innermost call
  frames,     \* build_branch: units of the enclosing calls, outermost first
  branch,     \* the Quote build_branch returned
  out,        \* what the invocation returned, or that it panicked
  io,         \* history: the steps this invocation has taken
  fs0,        \* history: the cache directory when this invocation started
  saved       \* history: the dictionary of the last successful save_dict

vars == <<args, fs, pc, dict, units, charsRead, unit, length, frames, branch,
          out, io, fs0, saved>>

\* the tokens a foreign cache file is made of: the empty string, a
\* capitalized word, a line feed before a period
CacheTokens == {<<>>, <<"A">>, <<"\n", ".">>}

PairLists == UNION {[1..n -> CacheTokens] : n \in 0..MaxPairs}

\* cache files that deserialize into Entries, and one that does not
ForeignFiles ==
  {Corrupt} \cup
  {Entries(es) : es \in UNION {[1..n -> [key : CacheTokens, pairs : PairLists]]
                                 : n \in 0..MaxEntries}}

\* a cache file a run on some other subtitle or unit left behind
OtherFile == Entries(<< Entry(<<"A">>, << <<"A", "!">> >>) >>)

Units == {"Word", "Grapheme"}

\* paths in the cache directory a that get_quote(a) does not look at: the
\* other unit's cache file, and the subtitle's full file name plus ".word"
OtherPaths(a) ==
  {cached_dict([a EXCEPT !.unit = u]) : u \in Units \ {a.unit}} \cup
  {[dir  |-> a.cache_directory,
    file |-> Last(split_slash(a.subtitle)) \o <<".">> \o UnitExtension(a.unit)]}

Pending == [kind |-> "Pending", quote |-> <<>>, msg |-> ""]
Ok(quote) == [kind |-> "Ok", quote |-> quote, msg |-> ""]
Err(msg) == [kind |-> "Err", quote |-> <<>>, msg |-> msg]
Panic(msg) == [kind |-> "Panic", quote |-> <<>>, msg |-> msg]

\* the process state at the entry of get_quote
Fresh ==
  /\ pc = "start"
  /\ dict = <<>>
  /\ units = <<>>
  /\ charsRead = 0
  /\ unit = <<>>
  /\ length = 0
  /\ frames = <<>>
  /\ branch = Nil
  /\ out = Pending
  /\ io = {}

Init ==
  /\ args \in [subtitle : {<<"d", "/", "s", ".", "t">>},
               quote_length : 1..MaxQuoteLen,
               unit : Units,
               cache_directory : {<<"c">>}]
  /\ \/ fs = <<>>
     \/ \E f \in ForeignFiles : fs = (cached_dict(args) :> f)
     \/ \E p \in OtherPaths(args) : fs = (p :> OtherFile)
  /\ Fresh
  /\ fs0 = fs
  /\ saved = <<>>

(* ------------------------------ get_quote ------------------------------ *)
\* cached_dict.is_file()
CheckCache ==
  /\ pc = "start"
  /\ pc' = IF cached_dict(args) \in DOMAIN fs THEN "load" ELSE "read"
  /\ UNCHANGED <<args, fs, dict, units, charsRead, unit, length, frames,
                 branch, out, io, fs0, saved>>

\* cache hit: load_dict(cached_dict)
LoadDict ==
  /\ pc = "load"
  /\ io' = io \cup {"load"}
  /\ LET file == fs[cached_dict(args)]
     IN  IF file.ok
           THEN /\ dict' = load_dict(file.entries)
                /\ pc' = "generate"
                /\ out' = out
           ELSE /\ dict' = dict
                /\ pc' = "done"
                /\ out' = Err("couldn't deserialize cached file")
  /\ UNCHANGED <<args, fs, units, charsRead, unit, length, frames, branch,
                 fs0, saved>>

\* cache miss: fs::read_to_string(&args.subtitle) succeeds
ReadSource ==
  /\ pc = "read"
  /\ io' = io \cup {"read"}
  /\ pc' = "build"
  /\ UNCHANGED <<args, fs, dict, units, charsRead, unit, length, frames,
                 branch, out, fs0, saved>>

\* fs::read_to_string fails (the file is not UTF-8, or cannot be read)
ReadSourceFails ==
  /\ pc = "read"
  /\ io' = io \cup {"read"}
  /\ pc' = "done"
  /\ out' = Err("couldn't open subtitle file")
  /\ UNCHANGED <<args, fs, dict, units, charsRead, unit, length, frames,
                 branch, fs0, saved>>

\* the loop over a line ends (the iterator or the peek is empty) and the for
\* loop takes the next line of the subtitle
NextLine ==
  /\ pc = "build"
  /\ Len(units) <= 1
  /\ \E n \in 0..(MaxSourceChars - charsRead - 1) :
       /\ \E us \in SourceUnits[n] : units' = us
       /\ charsRead' = charsRead + n + 1
  /\ io' = io \cup {"build"}
  /\ UNCHANGED <<args, fs, pc, dict, unit, length, frames, branch, out, fs0,
                 saved>>

\* one turn of the loop over a line with a token and a token after it
ProcessPair ==
  /\ pc = "build"
  /\ Len(units) >= 2
  /\ dict' = InsertPair(dict, units[1], units[2])
  /\ units' = Tail(units)
  /\ UNCHANGED <<args, fs, pc, charsRead, unit, length, frames, branch, out,
                 io, fs0, saved>>

\* the subtitle has no more lines
EndOfSource ==
  /\ pc = "build"
  /\ Len(units) <= 1
  /\ units' = <<>>
  /\ pc' = "save"
  /\ io' = io \cup {"build"}
  /\ UNCHANGED <<args, fs, dict, charsRead, unit, length, frames, branch,
                 out, fs0, saved>>

\* save_dict(dict.clone(), &cached_dict) succeeds
SaveDict ==
  /\ pc = "save"
  /\ \E ord \in DrainOrders(dict) :
       fs' = (cached_dict(args) :> Entries(save_dict(dict, ord))) @@ fs
  /\ saved' = <<dict>>
  /\ io' = io \cup {"save"}
  /\ pc' = "generate"
  /\ UNCHANGED <<args, dict, units, charsRead, unit, length, frames, branch,
                 out, fs0>>

\* fs::File::create fails: nothing is written
SaveDictCreateFails ==
  /\ pc = "save"
  /\ io' = io \cup {"save"}
  /\ pc' = "done"
  /\ out' = Err("couldn't create cache file")
  /\ UNCHANGED <<args, fs, dict, units, charsRead, unit, length, frames,
                 branch, fs0, saved>>

\* serde_json::to_writer fails after the file was created or truncated
SaveDictWriteFails ==
  /\ pc = "save"
  /\ fs' = (cached_dict(args) :> Corrupt) @@ fs
  /\ io' = io \cup {"save"}
  /\ pc' = "done"
  /\ out' = Err("couldn't write to cache file")
  /\ UNCHANGED <<args, dict, units, charsRead, unit, length, frames, branch,
                 fs0, saved>>

(* --------------------------- generate_quote ---------------------------- *)
\* the start token: the filter over the keys, gen_range(0, count), nth
GenerateQuote ==
  /\ pc = "generate"
  /\ io' = io \cup {"generate"}
  /\ IF StartsPanics(dict)
       THEN /\ pc' = "panic"
            /\ out' = Panic("index out of bounds")
            /\ UNCHANGED <<unit, length>>
     ELSE IF Starts(dict) = {}
       THEN /\ pc' = "panic"
            /\ out' = Panic("gen_range called with low >= high")
            /\ UNCHANGED <<unit, length>>
     ELSE /\ \E first \in Starts(dict) : unit' = first
          /\ length' = args.quote_length
          /\ pc' = "branch"
          /\ out' = out
  /\ UNCHANGED <<args, fs, dict, units, charsRead, frames, branch, fs0, saved>>

\* one call of build_branch
BuildBranch ==
  /\ pc = "branch"
  /\ IF BranchStops(dict, unit, length)
       THEN /\ branch' = Chain(Append(frames, unit), 1)
            /\ pc' = "assemble"
            /\ UNCHANGED <<unit, length, frames, out>>
     ELSE IF BranchCandidates(dict, unit) = {}
       THEN /\ pc' = "panic"
            /\ out' = Panic("gen_range called with low >= high")
            /\ UNCHANGED <<unit, length, frames, branch>>
     ELSE /\ \E next \in BranchCandidates(dict, unit) : unit' = next
          /\ length' = length - 1
          /\ frames' = Append(frames, unit)
          /\ UNCHANGED <<pc, branch, out>>
  /\ UNCHANGED <<args, fs, dict, units, charsRead, io, fs0, saved>>

\* branch.build(), join, the end punctuation
Assemble ==
  /\ pc = "assemble"
  /\ pc' = "done"
  /\ out' = IF QuoteBuild(branch) = <<>>
              THEN Err("couldn't build a random quote")
              ELSE Ok(FinishQuote(QuoteBuild(branch)[1]))
  /\ UNCHANGED <<args, fs, dict, units, charsRead, unit, length, frames,
                 branch, io, fs0, saved>>

\* the process has ended; the program is invoked again with the same
\* arguments and finds the cache directory as it was left
NextInvocation ==
  /\ pc \in {"done", "panic"}
  /\ pc' = "start"
  /\ dict' = <<>>
  /\ units' = <<>>
  /\ charsRead' = 0
  /\ unit' = <<>>
  /\ length' = 0
  /\ frames' = <<>>
  /\ branch' = Nil
  /\ out' = Pending
  /\ io' = {}
  /\ fs0' = fs
  /\ UNCHANGED <<args, fs, saved>>

Next ==
  \/ CheckCache
  \/ LoadDict
  \/ ReadSource
  \/ ReadSourceFails
  \/ NextLine
  \/ ProcessPair
  \/ EndOfSource
  \/ SaveDict
  \/ SaveDictCreateFails
  \/ SaveDictWriteFails
  \/ GenerateQuote
  \/ BuildBranch
  \/ Assemble
  \/ NextInvocation

Spec == Init /\ [][Next]_vars


(* ------------------------------- claims -------------------------------- *)
\* the invocation has returned from generate_quote, or panicked in it
Sampled == pc \in {"done", "panic"} /\ "generate" \in io

\* the tokens of the walk behind a returned quote
Walk == QuoteBuild(branch)[1]

\* d has a key whose first character is uppercase
HasUppercaseKey(d) ==
  \E key \in DOMAIN d : Len(key) >= 1 /\ key[1] \in Uppercase

\* C1 (as claimed): for every dictionary with a key whose first character is
\* uppercase and every quote_length >= 1, generate_quote returns a quote of
\* at least 1 and at most quote_length + 1 tokens.
C1_LengthBound ==
  (Sampled /\ HasUppercaseKey(dict)) =>
    /\ out.kind = "Ok"
    /\ Len(Walk) >= 1
    /\ Len(Walk) <= args.quote_length + 1

\* C2 (as claimed): on a dictionary with no key whose first character is
\* uppercase, generate_quote returns the error of the start-token selection
\* and does not crash.
C2_EmptyCorpus ==
  (Sampled /\ ~HasUppercaseKey(dict)) =>
    out = Err("couldn't determine the quote starting point")

\* C3: a dictionary loaded from the cache file that save_dict wrote is the
\* dictionary that was saved: load succeeds, the keys are the same and every
\* key has the same successor list, in whatever order the records were
\* written.
C3_RoundTrip ==
  ("load" \in io /\ saved # <<>>) =>
    /\ out.kind # "Err"
    /\ DOMAIN dict = DOMAIN saved[1]
    /\ \A key \in DOMAIN dict : dict[key] = saved[1][key]

\* a dictionary of two keys was saved, with the records in either order, and
\* a later invocation has loaded it
C3_Witness ==
  /\ "load" \in io
  /\ saved # <<>>
  /\ pc = "generate"
  /\ Cardinality(DOMAIN dict) = 2
  /\ fs[cached_dict(args)].entries[1].key = <<"b">>
  /\ fs[cached_dict(args)].entries[2].key = <<"A">>

\* the space-joined walk ends with one of . , ! ? after at least one other
\* character
EndsPunctuated(quote) == Len(quote) >= 2 /\ Last(quote) \in EndClass

\* C4 (as claimed): a returned quote ends with one of . , ! ? ; a period is
\* appended exactly when the space-joined walk does not end with one of them
\* preceded by at least one other character, and nothing else is changed.
C4_Punctuation ==
  out.kind = "Ok" =>
    /\ Last(out.quote) \in EndClass
    /\ out.quote = IF EndsPunctuated(join(Walk)) THEN join(Walk)
                   ELSE Append(join(Walk), ".")

\* C5: the first token of a returned quote is a key of the dictionary and
\* its first character is uppercase.
C5_StartCapital ==
  out.kind = "Ok" =>
    /\ Walk[1] \in DOMAIN dict
    /\ Len(Walk[1]) >= 1
    /\ Walk[1][1] \in Uppercase

\* a quote was returned from a dictionary that also has a key whose first
\* character is not uppercase
C5_Witness ==
  /\ out.kind = "Ok"
  /\ \E key \in DOMAIN dict : key[1] \notin Uppercase

\* C6 (as claimed): when a cache file that deserializes exists at the cache
\* path of the subtitle and unit as the invocation starts, the invocation
\* does not read the subtitle, does not run the builder, does not write the
\* cache file, and returns a quote.
C6_CacheHit ==
  (cached_dict(args) \in DOMAIN fs0 /\ fs0[cached_dict(args)].ok) =>
    /\ io \cap {"read", "build", "save"} = {}
    /\ fs = fs0
    /\ pc \in {"done", "panic"} => out.kind = "Ok"

\* what a step of the builder does to the dictionary and the iterator
C7_Step ==
  pc = "build" =>
      IF Len(units) >= 2
        THEN LET current == units[1]
                 nxt == units[2]
             IN  /\ units' = Tail(units)
                 /\ current \in DOMAIN dict =>
                      /\ DOMAIN dict' = DOMAIN dict
                      /\ dict'[current] = dict[current] \o <<nxt>>
                      /\ \A key \in DOMAIN dict \ {current} :
                           dict'[key] = dict[key]
                 /\ (current \notin DOMAIN dict /\ Last(current) # ".") =>
                      /\ DOMAIN dict' = DOMAIN dict \cup {current}
                      /\ dict'[current] = <<nxt>>
                      /\ \A key \in DOMAIN dict : dict'[key] = dict[key]
                 /\ (current \notin DOMAIN dict /\ Last(current) = ".") =>
                      dict' = dict
        ELSE dict' = dict

\* C7: the builder takes the tokens of a line in order; for the pair
\* (current, next) at the head of the line: a current that is a key gets
\* next appended to its list; a current that is no key and does not end with
\* a period becomes a key with the list [next]; a current that is no key
\* and ends with a period changes nothing.  With fewer than two tokens left
\* the dictionary stays as it is: the last token of a line is never a
\* current, and no pair spans two lines.
C7_PairRule == [][C7_Step]_vars

\* the builder has created a key and appended to it, and is left with the
\* last token of the line
C7_Witness ==
  /\ pc = "build"
  /\ \E key \in DOMAIN dict : Len(dict[key]) >= 2
  /\ Len(units) = 1

\* a building step keeps every key and shortens no list
C8_Grows ==
  pc = "build" =>
    \A key \in DOMAIN dict :
      key \in DOMAIN dict' /\ Len(dict'[key]) >= Len(dict[key])

\* C8: while and after the dictionary is built from the subtitle, no key is
\* the empty string and no successor list is empty; a building step keeps
\* every key and shortens no list.
C8_BuilderInvariant ==
  /\ []("read" \in io =>
         \A key \in DOMAIN dict : key # <<>> /\ dict[key] # <<>>)
  /\ [][C8_Grows]_vars

\* the builder is done with a dictionary of two keys
C8_Witness ==
  /\ pc = "save"
  /\ Cardinality(DOMAIN dict) = 2

\* a call of build_branch that finds no successor to draw
C9_Step ==
  (/\ pc = "branch"
   /\ length # 0
   /\ (unit \notin DOMAIN dict \/ Len(dict[unit]) = 0)) =>
    /\ pc' = "assemble"
    /\ QuoteBuild(branch') = << Append(frames, unit) >>

\* C9 (as claimed): a call of build_branch with a non-zero length on a token
\* that is no key, or whose successor list is empty, ends the walk with that
\* token as its last element; it does not draw and does not crash.
C9_EarlyTermination == [][C9_Step]_vars

\* the tokens the walk has visited so far
Visited ==
  IF pc = "branch" THEN Append(frames, unit)
  ELSE IF pc \in {"assemble", "done"} /\ branch # Nil THEN Walk
  ELSE <<>>

\* a step of the sampler leaves the dictionary alone; a call of build_branch
\* that recurses emits its unit and passes on length - 1
C10_Step ==
  pc \in {"generate", "branch", "assemble"} =>
    /\ dict' = dict
    /\ (pc = "branch" /\ pc' = "branch") =>
         (length' = length - 1 /\ frames' = Append(frames, unit))

\* C10: every two consecutive tokens of the walk are a key of the dictionary
\* and an element of that key's successor list; the remaining length is
\* quote_length less the number of tokens emitted so far, one less for each
\* of them; the walk leaves the dictionary as it is.
C10_WalkFollowsTransitions ==
  /\ [](/\ \A i \in 1..(Len(Visited) - 1) :
             /\ Visited[i] \in DOMAIN dict
             /\ \E j \in 1..Len(dict[Visited[i]]) :
                  dict[Visited[i]][j] = Visited[i + 1]
        /\ pc = "branch" => length = args.quote_length - Len(frames))
  /\ [][C10_Step]_vars

\* a quote of three tokens was returned
C10_Witness ==
  /\ out.kind = "Ok"
  /\ Len(Walk) = 3

====
